---- MODULE Spec2Model ----
(***************************************************************************)
(* A model of ark-algorithms: the KZG polynomial commitment scheme         *)
(* (src/src/cs/pcs/kzg/mod.rs) and the relaxed-R1CS folding accumulator    *)
(* (src/src/circuits/relaxed_r1cs/mod.rs), with the polynomial and linear  *)
(* algebra helpers they call.                                              *)
(*                                                                         *)
(* Scalars are the prime field of order P.  G1 and G2 are cyclic groups of *)
(* the same prime order, written additively; a group element is held as    *)
(* its discrete logarithm, so that scalar multiplication is the field      *)
(* product and the pairing of a and b is the target-group element whose    *)
(* logarithm is a*b.  Multiplication in the target group adds logarithms   *)
(* and its unit has logarithm 0.                                           *)
(*                                                                         *)
(* A call that ends in a Rust panic returns Panic; a call that returns v   *)
(* returns Ok(v).                                                          *)
(***************************************************************************)
EXTENDS Integers, Sequences, FiniteSets, TLC

VARIABLES kzg, polynomial, commitment, opening, vcall, mopen, mcall,
          r1cs, inst1, z1, inst2, z2, inst3, z3, sat, pc, challenge,
          mle, qap

kzgVars == <<kzg, polynomial, commitment, opening, vcall, mopen, mcall>>
foldVars == <<r1cs, inst1, z1, inst2, z2, inst3, z3, sat, pc, challenge>>
polyVars == <<mle, qap>>
vars == <<kzg, polynomial, commitment, opening, vcall, mopen, mcall,
          r1cs, inst1, z1, inst2, z2, inst3, z3, sat, pc, challenge,
          mle, qap>>

(***************************************************************************)
(* Bounds of the model.                                                    *)
(***************************************************************************)
MaxDegree == 2
MaxCoeff == 1
MaxGen == 2
MaxPoints == 2
MaxU == 2
MaxDelta == 1
MaxFolds == 2
MaxSetups == 2
MaxVars == 2
MaxRows == 2

(***************************************************************************)
(* Results of calls.                                                       *)
(***************************************************************************)
None == [tag |-> "none"]
Panic == [tag |-> "panic"]
Ok(v) == [tag |-> "ok", val |-> v]
IsOk(r) == r.tag = "ok"

(***************************************************************************)
(* The scalar field (F: PrimeField, E::ScalarField).                       *)
(***************************************************************************)
P == 7
F == 0 .. (P - 1)
FAdd(a, b) == (a + b) % P
FSub(a, b) == (a + P - b) % P
FMul(a, b) == (a * b) % P
FNeg(a) == (P - a) % P
FInv(a) == CHOOSE b \in F : (a * b) % P = 1

RECURSIVE FPow(_, _)
FPow(a, n) == IF n = 0 THEN 1 ELSE FMul(a, FPow(a, n - 1))

(***************************************************************************)
(* The groups and the pairing.                                             *)
(***************************************************************************)
G == F
GZero == 0
GAdd(a, b) == FAdd(a, b)
GSub(a, b) == FSub(a, b)
GNeg(a) == FNeg(a)
GScale(a, s) == FMul(a, s)
pairing(a, b) == FMul(a, b)
GTMul(x, y) == FAdd(x, y)
GTIsOne(x) == x = 0

(***************************************************************************)
(* DensePolynomial: the sequence of coefficients, lowest degree first,     *)
(* with no trailing zero.  The zero polynomial is the empty sequence.      *)
(***************************************************************************)
RECURSIVE from_coefficients_vec(_)
from_coefficients_vec(s) ==
    IF s = <<>> THEN <<>>
    ELSE IF s[Len(s)] = 0 THEN from_coefficients_vec(SubSeq(s, 1, Len(s) - 1))
    ELSE s

Coeff(p, i) == IF i <= Len(p) THEN p[i] ELSE 0
MaxOf(a, b) == IF a >= b THEN a ELSE b

PolyAdd(p, q) ==
    from_coefficients_vec([i \in 1 .. MaxOf(Len(p), Len(q)) |-> FAdd(Coeff(p, i), Coeff(q, i))])

PolySub(p, q) ==
    from_coefficients_vec([i \in 1 .. MaxOf(Len(p), Len(q)) |-> FSub(Coeff(p, i), Coeff(q, i))])

PolyScale(p, c) == from_coefficients_vec([i \in 1 .. Len(p) |-> FMul(p[i], c)])

RECURSIVE ConvSum(_, _, _, _)
ConvSum(p, q, k, i) ==
    IF i > Len(p) THEN 0
    ELSE FAdd(IF k - i + 1 >= 1 /\ k - i + 1 <= Len(q) THEN FMul(p[i], q[k - i + 1]) ELSE 0,
              ConvSum(p, q, k, i + 1))

PolyMul(p, q) ==
    IF p = <<>> \/ q = <<>> THEN <<>>
    ELSE from_coefficients_vec([k \in 1 .. (Len(p) + Len(q) - 1) |-> ConvSum(p, q, k, 1)])

RECURSIVE Horner(_, _, _)
Horner(p, x, i) == IF i > Len(p) THEN 0 ELSE FAdd(p[i], FMul(x, Horner(p, x, i + 1)))

evaluate(p, x) == Horner(p, x, 1)

(* Long division; the remainder is dropped, as by `&numerator / &denominator`. *)
RECURSIVE DivLoop(_, _, _)
DivLoop(rem, d, q) ==
    IF rem = <<>> \/ Len(rem) < Len(d) THEN from_coefficients_vec(q)
    ELSE LET k == Len(rem) - Len(d)
             c == FMul(rem[Len(rem)], FInv(d[Len(d)]))
             shifted == [i \in 1 .. Len(rem) |-> IF i > k THEN FMul(c, d[i - k]) ELSE 0]
         IN DivLoop(PolySub(rem, shifted), d, [q EXCEPT ![k + 1] = c])

PolyDiv(n, d) ==
    IF n = <<>> THEN <<>>
    ELSE IF Len(n) < Len(d) THEN <<>>
    ELSE DivLoop(n, d, [i \in 1 .. (Len(n) - Len(d) + 1) |-> 0])

(***************************************************************************)
(* KZG (src/src/cs/pcs/kzg/mod.rs).                                        *)
(***************************************************************************)
KZG_new(g1, g2, degree) ==
    [g1 |-> g1, g2 |-> g2, degree |-> degree, crs |-> <<>>, crs_2 |-> <<>>, vk |-> g2]

(* a setup whose powers of tau start at tau^1 *)
KZG_setup_powers_from_one(self, tau) ==
    [self EXCEPT
        !.crs = self.crs \o [i \in 1 .. (self.degree + 1) |-> GScale(self.g1, FPow(tau, i))],
        !.crs_2 = self.crs_2 \o [i \in 1 .. (self.degree + 1) |-> GScale(self.g2, FPow(tau, i))],
        !.vk = GScale(self.g2, tau)]

KZG_setup(self, tau) ==
    [self EXCEPT
        !.crs = self.crs \o [i \in 1 .. (self.degree + 1) |-> GScale(self.g1, FPow(tau, i - 1))],
        !.crs_2 = self.crs_2 \o [i \in 1 .. (self.degree + 1) |-> GScale(self.g2, FPow(tau, i - 1))],
        !.vk = GScale(self.g2, tau)]

(* sum of points[i] * coeffs[i] for i in 1..n *)
RECURSIVE Msm(_, _, _)
Msm(points, coeffs, n) ==
    IF n = 0 THEN GZero
    ELSE GAdd(Msm(points, coeffs, n - 1), GScale(points[n], coeffs[n]))

KZG_commit(self, poly) ==
    IF self.degree + 1 > Len(self.crs) \/ self.degree + 1 > Len(poly) THEN Panic
    ELSE Ok(Msm(self.crs, poly, self.degree + 1))

KZG_open(self, poly, z, y) ==
    LET y_polynomial == from_coefficients_vec(<<y>>)
        numerator == PolySub(poly, y_polynomial)
        denominator == from_coefficients_vec(<<FNeg(z), 1>>)
        q_x == PolyDiv(numerator, denominator)
    IN IF Len(q_x) > Len(self.crs) THEN Panic
       ELSE Ok(Msm(self.crs, q_x, Len(q_x)))

(* verify with the subtraction of g1*y from the commitment left out *)
KZG_verify_without_py(self, y, z, cm, pi) ==
    LET pz == GScale(self.g2, z)
        lhs == pairing(pi, GSub(self.vk, pz))
        rhs == pairing(cm, self.g2)
    IN lhs = rhs

KZG_verify(self, y, z, cm, pi) ==
    LET py == GScale(self.g1, y)
        pz == GScale(self.g2, z)
        lhs == pairing(pi, GSub(self.vk, pz))
        rhs == pairing(GSub(cm, py), self.g2)
    IN lhs = rhs

KZG_verify_no_g2_ops(self, y, z, cm, pi) ==
    LET py == GScale(self.g1, y)
        g2_neg == GNeg(self.g2)
        lhs_1 == pairing(pi, self.vk)
        lhs_2 == pairing(GScale(pi, z), g2_neg)
        lhs == GTMul(lhs_1, lhs_2)
        rhs == pairing(GSub(cm, py), self.g2)
    IN lhs = rhs

(* the EVM variant with pi * z in place of pi * -z *)
KZG_verify_evm_opcode_wrong_sign(self, y, z, cm, pi) ==
    LET py == GScale(self.g1, y)
        lhs == pairing(pi, self.vk)
        rhs == pairing(GAdd(GSub(GScale(pi, z), cm), py), self.g2)
    IN GTIsOne(GTMul(lhs, rhs))

KZG_verify_no_g2_ops_evm_opcode(self, y, z, cm, pi) ==
    LET py == GScale(self.g1, y)
        lhs == pairing(pi, self.vk)
        rhs == pairing(GAdd(GSub(GScale(pi, FNeg(z)), cm), py), self.g2)
    IN GTIsOne(GTMul(lhs, rhs))

KZG_verify_from_encrypted_y(self, py, z, cm, pi) ==
    LET pz == GScale(self.g2, z)
        lhs == pairing(pi, GSub(self.vk, pz))
        rhs == pairing(GSub(cm, py), self.g2)
    IN lhs = rhs

(***************************************************************************)
(* compute_lagrange_interpolation (src/src/utils/lagrange/mod.rs): the     *)
(* interpolation domain is 0 .. len-1, whatever points the caller queried. *)
(***************************************************************************)
RECURSIVE LagrangeLx(_)
LagrangeLx(n) ==
    IF n = 0 THEN from_coefficients_vec(<<1>>)
    ELSE PolyMul(LagrangeLx(n - 1), from_coefficients_vec(<<FNeg((n - 1) % P), 1>>))

RECURSIVE LagrangeWeight(_, _, _)
LagrangeWeight(n, j, m) ==
    IF m = n THEN 1
    ELSE IF m = j THEN LagrangeWeight(n, j, m + 1)
    ELSE FMul(FInv(FSub(j % P, m % P)), LagrangeWeight(n, j, m + 1))

RECURSIVE LagrangeSum(_, _, _)
LagrangeSum(p_i, l_x, j) ==
    IF j = 0 THEN from_coefficients_vec(<<0>>)
    ELSE LET w_j == LagrangeWeight(Len(p_i), j - 1, 0)
             poly_numerator == PolyScale(PolyScale(l_x, w_j), p_i[j])
             poly_denominator == from_coefficients_vec(<<FNeg((j - 1) % P), 1>>)
             poly == PolyDiv(poly_numerator, poly_denominator)
         IN PolyAdd(LagrangeSum(p_i, l_x, j - 1), poly)

(* Panic: the unwrap of the inverse of zero, when two domain points agree mod P *)
compute_lagrange_interpolation(p_i) ==
    IF Len(p_i) > P THEN Panic
    ELSE Ok(LagrangeSum(p_i, LagrangeLx(Len(p_i)), Len(p_i)))

(***************************************************************************)
(* build_zero_polynomial (src/src/utils/mod.rs)                            *)
(***************************************************************************)
RECURSIVE ZeroPolyProd(_, _)
ZeroPolyProd(roots, n) ==
    IF n = 1 THEN from_coefficients_vec(<<FMul(roots[1], FNeg(1)), 1>>)
    ELSE PolyMul(ZeroPolyProd(roots, n - 1), from_coefficients_vec(<<FMul(roots[n], FNeg(1)), 1>>))

(* build_zero_polynomial that takes the empty product to be 1 *)
build_zero_polynomial_empty_product(roots) ==
    IF roots = <<>> THEN Ok(from_coefficients_vec(<<1>>)) ELSE Ok(ZeroPolyProd(roots, Len(roots)))

build_zero_polynomial(roots) ==
    IF roots = <<>> THEN Panic ELSE Ok(ZeroPolyProd(roots, Len(roots)))

(***************************************************************************)
(* KZG batch opening                                                       *)
(***************************************************************************)
KZG_multi_open(self, poly, z_values) ==
    LET y_values == [i \in 1 .. Len(z_values) |-> evaluate(poly, z_values[i])]
        lagrange_polynomial == compute_lagrange_interpolation(y_values)
        zero_polynomial == build_zero_polynomial(z_values)
    IN IF ~IsOk(lagrange_polynomial) \/ ~IsOk(zero_polynomial) THEN Panic
       ELSE LET q == PolyDiv(PolySub(poly, lagrange_polynomial.val), zero_polynomial.val)
            IN IF Len(q) > Len(self.crs_2) THEN Panic
               ELSE Ok([pi |-> GAdd(GScale(self.g2, 0), Msm(self.crs_2, q, Len(q))),
                        lagrange_polynomial |-> lagrange_polynomial.val,
                        zero_polynomial |-> zero_polynomial.val])

MinOf(a, b) == IF a <= b THEN a ELSE b

(* Steps 1 and 2 of the function build two iterator adaptors with `map` and *)
(* drop them (`let _ = ...`) without consuming them: the closures holding   *)
(* the assert_eq! never run, so neither y_values nor z_values is read.      *)
KZG_verify_multi_open_no_g2_ops(self, cm, z_values, y_values, lagrange_polynomial, zero_polynomial, pi) ==
    LET z_tau == Msm(self.crs, zero_polynomial, MinOf(Len(zero_polynomial), Len(self.crs)))
        i_tau == Msm(self.crs, lagrange_polynomial, MinOf(Len(lagrange_polynomial), Len(self.crs)))
    IN GTIsOne(GTMul(pairing(z_tau, pi), pairing(GAdd(GNeg(cm), i_tau), self.g2)))

(***************************************************************************)
(* Matrix and Vector (src/src/utils/linear_algebra/mod.rs).  A Vector is   *)
(* the sequence of its elements, a Matrix the sequence of its rows; the    *)
(* operators take and return results, so that a panic of an operand is the *)
(* panic of the expression.                                                *)
(***************************************************************************)
num_rows(m) == Len(m)
num_cols(m) == Len(m[1])
new_zero_vector(size) == [i \in 1 .. size |-> 0]

RECURSIVE RowDot(_, _, _)
RowDot(row, v, j) ==
    IF j = 0 THEN 0 ELSE FAdd(RowDot(row, v, j - 1), FMul(row[j], v[j]))

dot_vector(m, rhs) ==
    IF num_cols(m) # Len(rhs) THEN Panic
    ELSE Ok([i \in 1 .. num_rows(m) |-> RowDot(m[i], rhs, num_cols(m))])

BothOk(x, y) == IsOk(x) /\ IsOk(y)

VecSub(x, y) ==
    IF ~BothOk(x, y) THEN Panic
    ELSE IF Len(x.val) # Len(y.val) THEN Panic
    ELSE Ok([i \in 1 .. Len(x.val) |-> FSub(x.val[i], y.val[i])])

VecMul(x, y) ==
    IF ~BothOk(x, y) THEN Panic
    ELSE IF Len(x.val) # Len(y.val) THEN Panic
    ELSE Ok([i \in 1 .. Len(x.val) |-> FMul(x.val[i], y.val[i])])

VecAdd(x, y) ==
    IF ~BothOk(x, y) THEN Panic
    ELSE IF Len(x.val) # Len(y.val) THEN Panic
    ELSE Ok([i \in 1 .. Len(x.val) |-> FAdd(x.val[i], y.val[i])])

scalar_mul(x, scalar) ==
    IF ~IsOk(x) THEN Panic
    ELSE Ok([i \in 1 .. Len(x.val) |-> FMul(x.val[i], scalar)])

(* is_zero_vector that stops at the first element, whatever follows it *)
is_zero_vector_first_only(x) ==
    IF ~IsOk(x) THEN Panic
    ELSE Ok(x.val = <<>> \/ x.val[1] = 0)

is_zero_vector(x) ==
    IF ~IsOk(x) THEN Panic
    ELSE Ok(\A i \in 1 .. Len(x.val) : x.val[i] = 0)

(***************************************************************************)
(* R1CS (src/src/circuits/r1cs/mod.rs)                                     *)
(***************************************************************************)
R1CS_is_satisfied(self, z) ==
    LET az == dot_vector(self.a, z)
        bz == dot_vector(self.b, z)
        cz == dot_vector(self.c, z)
    IN is_zero_vector(VecSub(VecMul(az, bz), cz))

(* the struct extract_r1cs builds: n_cols = n_instance + n_witness *)
R1CS_struct(a, b, c, n_instance) ==
    [n_constraints |-> num_rows(a), n_witness |-> num_cols(a) - n_instance,
     n_instance |-> n_instance, a |-> a, b |-> b, c |-> c]

(***************************************************************************)
(* R1CSRelaxed (src/src/circuits/relaxed_r1cs/mod.rs)                      *)
(***************************************************************************)
(* a lift whose error term takes its length from n_witness *)
R1CSRelaxed_from_wrong_length(value) ==
    [n_constraints |-> value.n_constraints, n_witness |-> value.n_witness,
     n_instance |-> value.n_instance, a |-> value.a, b |-> value.b, c |-> value.c,
     e |-> new_zero_vector(value.n_witness), u |-> 1]

R1CSRelaxed_from(value) ==
    [n_constraints |-> value.n_constraints, n_witness |-> value.n_witness,
     n_instance |-> value.n_instance, a |-> value.a, b |-> value.b, c |-> value.c,
     e |-> new_zero_vector(value.n_constraints), u |-> 1]

from_relaxed_r1cs(a, b, c, u, e) ==
    [n_constraints |-> num_rows(a), n_witness |-> num_cols(a), n_instance |-> num_cols(b),
     a |-> a, b |-> b, c |-> c, e |-> e, u |-> u]

(* is_satisfied read as (az o bz - u*cz) + e *)
R1CSRelaxed_is_satisfied_sub_then_add(self, z) ==
    LET az == dot_vector(self.a, z)
        bz == dot_vector(self.b, z)
        cz == dot_vector(self.c, z)
    IN is_zero_vector(VecAdd(VecSub(VecMul(az, bz), scalar_mul(cz, self.u)), Ok(self.e)))

R1CSRelaxed_is_satisfied(self, z) ==
    LET az == dot_vector(self.a, z)
        bz == dot_vector(self.b, z)
        cz == dot_vector(self.c, z)
    IN is_zero_vector(VecSub(VecMul(az, bz), VecAdd(scalar_mul(cz, self.u), Ok(self.e))))

(* compute_t with u1 and u2 exchanged *)
compute_t_swapped_u(self, rhs, w1, w2) ==
    LET u1 == rhs.u
        u2 == self.u
    IN VecSub(VecSub(VecAdd(VecMul(dot_vector(self.a, w1), dot_vector(self.b, w2)),
                            VecMul(dot_vector(self.a, w2), dot_vector(self.b, w1))),
                     scalar_mul(dot_vector(self.c, w2), u1)),
              scalar_mul(dot_vector(self.c, w1), u2))

compute_t(self, rhs, w1, w2) ==
    LET u1 == self.u
        u2 == rhs.u
    IN VecSub(VecSub(VecAdd(VecMul(dot_vector(self.a, w1), dot_vector(self.b, w2)),
                            VecMul(dot_vector(self.a, w2), dot_vector(self.b, w1))),
                     scalar_mul(dot_vector(self.c, w2), u1)),
              scalar_mul(dot_vector(self.c, w1), u2))

(* compute_u that adds u_2 without the challenge *)
compute_u_without_challenge(self, rhs, ch) == FAdd(self.u, rhs.u)

compute_u(self, rhs, ch) == FAdd(self.u, FMul(rhs.u, ch))

(* compute_e with r in place of r^2 on E_2 *)
compute_e_without_square(self, rhs, ch, w1, w2) ==
    LET e1 == Ok(self.e)
        e2 == Ok(rhs.e)
        t == compute_t(self, rhs, w1, w2)
    IN VecAdd(VecAdd(scalar_mul(t, ch), e1), scalar_mul(e2, ch))

(* compute_e that leaves E_1 out of the sum *)
compute_e_dropping_e1(self, rhs, ch, w1, w2) ==
    LET e2 == Ok(rhs.e)
        r_square == FMul(ch, ch)
        t == compute_t(self, rhs, w1, w2)
    IN VecAdd(scalar_mul(t, ch), scalar_mul(e2, r_square))

compute_e(self, rhs, ch, w1, w2) ==
    LET e1 == Ok(self.e)
        e2 == Ok(rhs.e)
        r_square == FMul(ch, ch)
        t == compute_t(self, rhs, w1, w2)
    IN VecAdd(VecAdd(scalar_mul(t, ch), e1), scalar_mul(e2, r_square))

(* compute_z that scales z1 in place of z2 *)
compute_z_scaling_first(self, ch, w1, w2) == VecAdd(scalar_mul(Ok(w1), ch), Ok(w2))

compute_z(self, ch, w1, w2) == VecAdd(Ok(w1), scalar_mul(Ok(w2), ch))

(***************************************************************************)
(* The test fixtures of src/src/circuits/r1cs/utils.rs                     *)
(***************************************************************************)
get_test_r1cs ==
    [a |-> << <<0, 1, 0, 0, 0, 0>>,
              <<0, 0, 0, 1, 0, 0>>,
              <<0, 1, 0, 0, 1, 0>>,
              <<5, 0, 0, 0, 0, 1>> >>,
     b |-> << <<0, 1, 0, 0, 0, 0>>,
              <<0, 1, 0, 0, 0, 0>>,
              <<1, 0, 0, 0, 0, 0>>,
              <<1, 0, 0, 0, 0, 0>> >>,
     c |-> << <<0, 0, 0, 1, 0, 0>>,
              <<0, 0, 0, 0, 1, 0>>,
              <<0, 0, 0, 0, 0, 1>>,
              <<0, 0, 1, 0, 0, 0>> >>]

get_test_satisfying_witness(input) ==
    LET x == input % P
        x3 == FMul(FMul(x, x), x)
    IN <<1, x, FAdd(FAdd(x3, x), 5 % P), FMul(x, x), x3, FAdd(x3, x)>>

(***************************************************************************)
(* The inputs callers draw.                                                *)
(***************************************************************************)
Gens == 1 .. MaxGen
Coeffs == 0 .. MaxCoeff
SeqsUpTo(S, n) == UNION {[1 .. k -> S] : k \in 0 .. n}
Polys == {from_coefficients_vec(s) : s \in SeqsUpTo(Coeffs, MaxDegree + 1)}
QueryPoints == {i % P : i \in 0 .. MaxPoints}
QuerySeqs == SeqsUpTo(QueryPoints, MaxPoints)

SetUpOnce == Len(kzg.crs) = kzg.degree + 1

NoFold ==
    /\ r1cs = None /\ inst1 = None /\ z1 = None /\ inst2 = None /\ z2 = None
    /\ inst3 = None /\ z3 = None /\ sat = None /\ pc = "none" /\ challenge = None

NoKzg ==
    /\ kzg = None /\ polynomial = <<>> /\ commitment = None /\ opening = None
    /\ vcall = None /\ mopen = None /\ mcall = None

NoPoly == mle = None /\ qap = None

(***************************************************************************)
(* A KZG session: KZG::new, then setup, commit, open and the verifiers, as *)
(* test_full_kzg and test_multi_open_kzg_with_no_g2_ops call them.         *)
(***************************************************************************)
KInit ==
    /\ NoPoly
    /\ \E g1 \in Gens, g2 \in Gens, degree \in 0 .. MaxDegree :
          /\ g1 # g2
          /\ kzg = KZG_new(g1, g2, degree)
    /\ polynomial \in Polys
    /\ commitment = None /\ opening = None /\ vcall = None
    /\ mopen = None /\ mcall = None
    /\ NoFold

(* the session sets the object up once, as the tests do *)
Setup ==
    /\ kzg.crs = <<>>
    /\ \E tau \in F : kzg' = KZG_setup(kzg, tau)
    /\ UNCHANGED <<polynomial, commitment, opening, vcall, mopen, mcall>>
    /\ UNCHANGED <<foldVars, polyVars>>

(* a commit that takes the points it used out of crs *)
CommitConsumingCrs ==
    /\ commitment' = KZG_commit(kzg, polynomial)
    /\ kzg' = [kzg EXCEPT !.crs = <<>>]
    /\ vcall' = None /\ mcall' = None
    /\ UNCHANGED <<polynomial, opening, mopen>>
    /\ UNCHANGED <<foldVars, polyVars>>

Commit ==
    /\ commitment' = KZG_commit(kzg, polynomial)
    /\ vcall' = None /\ mcall' = None
    /\ UNCHANGED <<kzg, polynomial, opening, mopen>>
    /\ UNCHANGED <<foldVars, polyVars>>

Open ==
    /\ \E z \in QueryPoints :
          LET y == evaluate(polynomial, z)
          IN opening' = [z |-> z, y |-> y, pi |-> KZG_open(kzg, polynomial, z, y)]
    /\ vcall' = None
    /\ UNCHANGED <<kzg, polynomial, commitment, mopen, mcall>>
    /\ UNCHANGED <<foldVars, polyVars>>

(* the tuple commit and open returned, and the tuples with one entry replaced *)
HonestTuple == [y |-> opening.y, z |-> opening.z, cm |-> commitment.val, pi |-> opening.pi.val]
CanVerify == IsOk(commitment) /\ opening # None /\ IsOk(opening.pi)
VerifyInputs ==
    {HonestTuple}
    \cup {[HonestTuple EXCEPT !.y = v] : v \in F}
    \cup {[HonestTuple EXCEPT !.z = v] : v \in F}
    \cup {[HonestTuple EXCEPT !.cm = v] : v \in G}
    \cup {[HonestTuple EXCEPT !.pi = v] : v \in G}

Verify ==
    /\ CanVerify
    /\ vcall = None
    /\ \E t \in VerifyInputs :
          vcall' = [op |-> "verify", args |-> t,
                    ret |-> KZG_verify(kzg, t.y, t.z, t.cm, t.pi)]
    /\ UNCHANGED <<kzg, polynomial, commitment, opening, mopen, mcall>>
    /\ UNCHANGED <<foldVars, polyVars>>

VerifyNoG2Ops ==
    /\ CanVerify
    /\ vcall = None
    /\ \E t \in VerifyInputs :
          vcall' = [op |-> "verify_no_g2_ops", args |-> t,
                    ret |-> KZG_verify_no_g2_ops(kzg, t.y, t.z, t.cm, t.pi)]
    /\ UNCHANGED <<kzg, polynomial, commitment, opening, mopen, mcall>>
    /\ UNCHANGED <<foldVars, polyVars>>

VerifyNoG2OpsEvmOpcode ==
    /\ CanVerify
    /\ vcall = None
    /\ \E t \in VerifyInputs :
          vcall' = [op |-> "verify_no_g2_ops_evm_opcode", args |-> t,
                    ret |-> KZG_verify_no_g2_ops_evm_opcode(kzg, t.y, t.z, t.cm, t.pi)]
    /\ UNCHANGED <<kzg, polynomial, commitment, opening, mopen, mcall>>
    /\ UNCHANGED <<foldVars, polyVars>>

KNext == Setup \/ Commit \/ Open \/ Verify \/ VerifyNoG2Ops \/ VerifyNoG2OpsEvmOpcode

Spec == KInit /\ [][KNext]_vars

(***************************************************************************)
(* A batch-opening session (test_multi_open_kzg_with_no_g2_ops).           *)
(***************************************************************************)
(* one batch opening per session *)
MultiOpen ==
    /\ mopen = None
    /\ \E zs \in QuerySeqs :
          mopen' = [z_values |-> zs,
                    y_values |-> [i \in 1 .. Len(zs) |-> evaluate(polynomial, zs[i])],
                    ret |-> KZG_multi_open(kzg, polynomial, zs)]
    /\ mcall' = None
    /\ UNCHANGED <<kzg, polynomial, commitment, opening, vcall>>
    /\ UNCHANGED <<foldVars, polyVars>>

HonestMulti == [cm |-> commitment.val, y_values |-> mopen.y_values]
CanVerifyMulti == IsOk(commitment) /\ mopen # None /\ IsOk(mopen.ret)
MultiInputs ==
    {HonestMulti}
    \cup {[HonestMulti EXCEPT !.cm = v] : v \in G}
    \cup {[HonestMulti EXCEPT !.y_values[i] = v] : i \in 1 .. Len(mopen.y_values), v \in F}

VerifyMultiOpen ==
    /\ CanVerifyMulti
    /\ mcall = None
    /\ \E t \in MultiInputs :
          mcall' = [args |-> t,
                    ret |-> KZG_verify_multi_open_no_g2_ops(kzg, t.cm, mopen.z_values, t.y_values,
                               mopen.ret.val.lagrange_polynomial, mopen.ret.val.zero_polynomial,
                               mopen.ret.val.pi)]
    /\ UNCHANGED <<kzg, polynomial, commitment, opening, vcall, mopen>>
    /\ UNCHANGED <<foldVars, polyVars>>

MNext == Setup \/ Commit \/ MultiOpen \/ VerifyMultiOpen

SpecMulti == KInit /\ [][MNext]_vars

(***************************************************************************)
(* Single-point opening: C1, C3, C4                                        *)
(***************************************************************************)
VerifyCalled == vcall # None /\ vcall.op = "verify"
HonestAccepted ==
    KZG_verify(kzg, HonestTuple.y, HonestTuple.z, HonestTuple.cm, HonestTuple.pi)
(* the recorded results are those of calls on the object as it is now *)
CommitReturned == commitment # None /\ commitment = KZG_commit(kzg, polynomial)
OpenReturned ==
    opening # None /\ opening.pi = KZG_open(kzg, polynomial, opening.z, opening.y)
TupleFields == {"y", "z", "cm", "pi"}
Replaced(f) ==
    /\ vcall.args[f] # HonestTuple[f]
    /\ \A h \in TupleFields \ {f} : vcall.args[h] = HonestTuple[h]

(* C1: on an object set up once, for every polynomial of degree <= the CRS  *)
(* degree (degree strictly below it included) and every z, commit returns a *)
(* commitment, open returns a proof and verify accepts the tuple.           *)
C1_CommitOpenVerifyAccepts ==
    (SetUpOnce /\ Len(polynomial) <= kzg.degree + 1) =>
        /\ CommitReturned => IsOk(commitment)
        /\ OpenReturned => IsOk(opening.pi)
        /\ (VerifyCalled /\ vcall.args = HonestTuple) => vcall.ret = TRUE

(* C3 as stated: verify accepts the honest tuple, and rejects every tuple   *)
(* that differs from it in exactly one of y, z, commitment, proof.          *)
C3_EveryReplacementRejected ==
    (VerifyCalled /\ HonestAccepted /\ \E f \in TupleFields : Replaced(f)) =>
        vcall.ret = FALSE

(* C3 amended: with the honest tuple accepted, a replaced y or commitment   *)
(* is always rejected; a replaced z is rejected exactly when the proof is   *)
(* not the identity of G1; a replaced proof is rejected exactly when        *)
(* vk # g2*z, that is z # tau.                                              *)
C3_ReplacementRejectedUnlessDegenerate ==
    (VerifyCalled /\ HonestAccepted) =>
        /\ (Replaced("y") \/ Replaced("cm")) => vcall.ret = FALSE
        /\ Replaced("z") => (vcall.ret = FALSE <=> HonestTuple.pi # GZero)
        /\ Replaced("pi") =>
              (vcall.ret = FALSE <=> kzg.vk # GScale(kzg.g2, HonestTuple.z))

C3_Witness ==
    /\ VerifyCalled /\ HonestAccepted /\ SetUpOnce
    /\ Replaced("pi") /\ vcall.ret = FALSE

(* C4: verify, verify_no_g2_ops and verify_no_g2_ops_evm_opcode return the  *)
(* same boolean on the same object and the same (y, z, commitment, pi):     *)
(* for the call a session made, and, for every value of the object (each    *)
(* occurs in a state before any call), for every input of the field.        *)
C4_VariantsAgree ==
    /\ vcall # None =>
          LET t == vcall.args
          IN /\ vcall.ret = KZG_verify(kzg, t.y, t.z, t.cm, t.pi)
             /\ vcall.ret = KZG_verify_no_g2_ops(kzg, t.y, t.z, t.cm, t.pi)
             /\ vcall.ret = KZG_verify_no_g2_ops_evm_opcode(kzg, t.y, t.z, t.cm, t.pi)
    /\ (vcall = None /\ commitment = None /\ opening = None) =>
          \A y \in F, z \in F, cm \in G, pi \in G :
             /\ KZG_verify(kzg, y, z, cm, pi) = KZG_verify_no_g2_ops(kzg, y, z, cm, pi)
             /\ KZG_verify(kzg, y, z, cm, pi) = KZG_verify_no_g2_ops_evm_opcode(kzg, y, z, cm, pi)

C4_Witness ==
    /\ vcall # None /\ vcall.op = "verify_no_g2_ops_evm_opcode"
    /\ SetUpOnce /\ Replaced("y") /\ vcall.ret = FALSE

(***************************************************************************)
(* An opening session in which the caller supplies y (KZG::open takes y as *)
(* an argument and does not evaluate the polynomial itself).               *)
(***************************************************************************)
OpenAt ==
    /\ \E z \in QueryPoints, y \in F :
          opening' = [z |-> z, y |-> y, pi |-> KZG_open(kzg, polynomial, z, y)]
    /\ vcall' = None
    /\ UNCHANGED <<kzg, polynomial, commitment, mopen, mcall>>
    /\ UNCHANGED <<foldVars, polyVars>>

ONext == Setup \/ Commit \/ OpenAt

SpecOpen == KInit /\ [][ONext]_vars

(* C11: on an object set up with degree d, commit and open of a polynomial  *)
(* of degree > d end in an error; neither returns a value.                  *)
C11_DegreeExceededFails ==
    (SetUpOnce /\ Len(polynomial) > kzg.degree + 1) =>
        /\ CommitReturned => commitment = Panic
        /\ OpenReturned => opening.pi = Panic

(* C12: open(p, z, y) with y # p(z) fails and returns no proof.             *)
C12_InconsistentEvaluationFails ==
    (SetUpOnce /\ Len(polynomial) <= kzg.degree + 1 /\ OpenReturned
     /\ opening.y # evaluate(polynomial, opening.z)) =>
        opening.pi = Panic

CrsStructure(k, tau) ==
    /\ Len(k.crs) = k.degree + 1
    /\ Len(k.crs_2) = k.degree + 1
    /\ \A i \in 0 .. k.degree :
          /\ k.crs[i + 1] = GScale(k.g1, FPow(tau, i))
          /\ k.crs_2[i + 1] = GScale(k.g2, FPow(tau, i))
    /\ k.vk = GScale(k.g2, tau)
    /\ k.degree >= 1 => k.vk = k.crs_2[2]

(* C14: a step that is the one setup(tau) of a new object leaves crs and    *)
(* crs_2 with exactly degree+1 entries, crs[i] = g1*tau^i and               *)
(* crs_2[i] = g2*tau^i, and vk = g2*tau (= crs_2[1] when degree >= 1).      *)
C14_CrsStructure ==
    [][\A tau \in F :
          (kzg.crs = <<>> /\ kzg' = KZG_setup(kzg, tau)) => CrsStructure(kzg', tau)]_vars

C14_Witness ==
    /\ SetUpOnce /\ kzg.degree = MaxDegree
    /\ \E tau \in F \ {0, 1} : CrsStructure(kzg, tau)

(* C20: with degree 0, for every constant polynomial (the zero polynomial   *)
(* included) and every z, commit and open return and verify accepts.        *)
C20_DegreeZeroValid ==
    (SetUpOnce /\ kzg.degree = 0 /\ Len(polynomial) <= 1) =>
        /\ CommitReturned => IsOk(commitment)
        /\ OpenReturned => IsOk(opening.pi)
        /\ (VerifyCalled /\ CommitReturned /\ OpenReturned /\ vcall.args = HonestTuple)
              => vcall.ret = TRUE

(* C26: on an object on which setup has not run, every commit and every    *)
(* open fails and returns no commitment and no proof.                       *)
C26_UseBeforeSetupFails ==
    (kzg.crs = <<>>) =>
        /\ commitment # None => commitment = Panic
        /\ opening # None => opening.pi = Panic

(***************************************************************************)
(* The lifetime of an object on which setup may be called again.           *)
(***************************************************************************)
SetupAgain ==
    /\ kzg.crs # <<>>
    /\ Len(kzg.crs) < MaxSetups * (kzg.degree + 1)
    /\ \E tau \in F : kzg' = KZG_setup(kzg, tau)
    /\ UNCHANGED <<polynomial, commitment, opening, vcall, mopen, mcall>>
    /\ UNCHANGED <<foldVars, polyVars>>

LNext == Setup \/ SetupAgain \/ Commit

SpecLifetime == KInit /\ [][LNext]_vars

(* C25: in every state after the first setup, further setups included, crs  *)
(* and crs_2 have exactly degree+1 entries, and crs[i] = g1*tau^i,          *)
(* crs_2[i] = g2*tau^i and vk = g2*tau hold for one and the same tau.       *)
C25_CrsImmutable ==
    (kzg.crs # <<>>) => \E tau \in F : CrsStructure(kzg, tau)

(***************************************************************************)
(* Batch opening: C5, C6, C7                                               *)
(***************************************************************************)
Distinct(s) == \A i, j \in 1 .. Len(s) : i # j => s[i] # s[j]
MultiCalled == mcall # None

(* C5: for a polynomial of degree <= the CRS degree and >= 2 pairwise       *)
(* distinct query points, verify_multi_open_no_g2_ops accepts the output of *)
(* multi_open with the commitment and the evaluations.                      *)
C5_BatchOpeningAccepted ==
    (/\ MultiCalled /\ SetUpOnce /\ Len(polynomial) <= kzg.degree + 1
     /\ Len(mopen.z_values) >= 2 /\ Distinct(mopen.z_values)
     /\ mcall.args = HonestMulti) =>
        mcall.ret = TRUE

(* C6: for the output of multi_open on >= 2 distinct points, with one y_i   *)
(* changed, so that L(z_i) # y_i, the verifier does not return true.        *)
C6_AlteredEvaluationRejected ==
    (/\ MultiCalled /\ SetUpOnce /\ Len(polynomial) <= kzg.degree + 1
     /\ Len(mopen.z_values) >= 2 /\ Distinct(mopen.z_values)
     /\ mcall.args.cm = HonestMulti.cm
     /\ \E i \in 1 .. Len(mopen.z_values) :
           /\ mcall.args.y_values[i] # mopen.y_values[i]
           /\ evaluate(mopen.ret.val.lagrange_polynomial, mopen.z_values[i]) # mcall.args.y_values[i]) =>
        mcall.ret # TRUE

(* C7: with the genuine (pi, L, Z) of p on >= 2 distinct points and the     *)
(* genuine evaluations, every commitment other than commit(p) is rejected.  *)
C7_TamperedCommitmentRejected ==
    (/\ MultiCalled /\ SetUpOnce /\ Len(polynomial) <= kzg.degree + 1
     /\ Len(mopen.z_values) >= 2 /\ Distinct(mopen.z_values)
     /\ mcall.args.y_values = HonestMulti.y_values
     /\ mcall.args.cm # KZG_commit(kzg, polynomial).val) =>
        mcall.ret = FALSE

(***************************************************************************)
(* multi_open itself: C13, C17, C18                                        *)
(***************************************************************************)
(* the recorded result is that of multi_open on the object as it is now *)
MultiOpenReturned ==
    mopen # None /\ mopen.ret = KZG_multi_open(kzg, polynomial, mopen.z_values)

(* Z is monic of degree n and vanishes at every point of zs *)
IsZeroPolynomialOf(zp, zs) ==
    /\ Len(zp) = Len(zs) + 1
    /\ zp[Len(zp)] = 1
    /\ \A i \in 1 .. Len(zs) : evaluate(zp, zs[i]) = 0

InterpolatesOn(lp, zs) ==
    /\ \A i \in 1 .. Len(zs) : evaluate(lp, zs[i]) = evaluate(polynomial, zs[i])
    /\ Len(lp) <= Len(zs)

(* C13: for pairwise distinct query points, the L returned by multi_open    *)
(* has L(z_i) = p(z_i) for every i and degree < len(z_values), and the      *)
(* returned Z is the product of the (X - z_i).                              *)
C13_MultiOpenInterpolates ==
    (MultiOpenReturned /\ SetUpOnce /\ IsOk(mopen.ret) /\ Distinct(mopen.z_values)) =>
        /\ InterpolatesOn(mopen.ret.val.lagrange_polynomial, mopen.z_values)
        /\ IsZeroPolynomialOf(mopen.ret.val.zero_polynomial, mopen.z_values)

(* C17: multi_open with a point that occurs twice in z_values fails and     *)
(* returns no (proof, L, Z).                                                *)
C17_DuplicatePointsRejected ==
    (MultiOpenReturned /\ SetUpOnce /\ Len(polynomial) <= kzg.degree + 1
     /\ ~Distinct(mopen.z_values)) =>
        mopen.ret = Panic

(* C18: multi_open with an empty z_values fails and returns no              *)
(* (proof, L, Z).                                                           *)
C18_EmptyQuerySetFails ==
    (mopen # None /\ mopen.z_values = <<>>) => mopen.ret = Panic

C18_Witness ==
    /\ MultiOpenReturned /\ mopen.z_values = <<>> /\ mopen.ret = Panic
    /\ SetUpOnce /\ Len(polynomial) = kzg.degree + 1

(***************************************************************************)
(* A session that uses every operation of the object: single-point         *)
(* openings with the four verifiers, or a batch opening with its verifier. *)
(***************************************************************************)
VerifyFromEncryptedY ==
    /\ CanVerify
    /\ vcall = None
    /\ mopen = None
    /\ \E t \in VerifyInputs :
          vcall' = [op |-> "verify_from_encrypted_y", args |-> t,
                    ret |-> KZG_verify_from_encrypted_y(kzg, GScale(kzg.g1, t.y), t.z, t.cm, t.pi)]
    /\ UNCHANGED <<kzg, polynomial, commitment, opening, mopen, mcall>>
    /\ UNCHANGED <<foldVars, polyVars>>

SingleOpen == mopen = None /\ Open
SingleVerify == mopen = None /\ (Verify \/ VerifyNoG2Ops \/ VerifyNoG2OpsEvmOpcode)
BatchOpen == opening = None /\ MultiOpen

UNext ==
    \/ Setup \/ Commit \/ SingleOpen \/ SingleVerify \/ VerifyFromEncryptedY
    \/ BatchOpen \/ VerifyMultiOpen

SpecUse == KInit /\ [][UNext]_vars

(* C21: commit, open, multi_open and the five verifiers leave g1, g2,       *)
(* degree, crs, crs_2 and vk as they were: the object changes only in the   *)
(* step that is its setup, and that step returns nothing to the caller.     *)
C21_UsersLeaveObjectUnchanged ==
    [][(kzg' # kzg) =>
          /\ kzg.crs = <<>>
          /\ \E tau \in F : kzg' = KZG_setup(kzg, tau)
          /\ UNCHANGED <<polynomial, commitment, opening, vcall, mopen, mcall>>]_vars

C21_Witness ==
    /\ SetUpOnce /\ CommitReturned /\ IsOk(commitment)
    /\ vcall # None /\ vcall.op = "verify_from_encrypted_y" /\ vcall.ret = TRUE

(***************************************************************************)
(* Satisfiability sessions: an R1CS and a vector z are built, the R1CS is  *)
(* asked whether z satisfies it, then it is lifted to a relaxed R1CS and   *)
(* the lift is asked the same (tests of circuits/r1cs/mod.rs and           *)
(* circuits/relaxed_r1cs/mod.rs).                                          *)
(***************************************************************************)
Prefix(m, n) == SubSeq(m, 1, n)

R1CSFamily ==
    LET t == get_test_r1cs
    IN {R1CS_struct(Prefix(t.a, n), Prefix(t.b, n), Prefix(t.c, n), 2) :
            n \in 1 .. num_rows(t.a)}

TestR1CS == R1CS_struct(get_test_r1cs.a, get_test_r1cs.b, get_test_r1cs.c, 2)

Perturb(z, i, d) == [z EXCEPT ![i] = FAdd(z[i], d)]

Witnesses == {get_test_satisfying_witness(x) : x \in F}

SatInputs ==
    {Perturb(w, i, d) : w \in Witnesses, i \in 1 .. num_cols(get_test_r1cs.a), d \in F}
        \cup {Prefix(w, Len(w) - 1) : w \in Witnesses}

SInit ==
    /\ NoPoly
    /\ NoKzg
    /\ r1cs \in R1CSFamily
    /\ z1 \in SatInputs
    /\ inst1 = None
    /\ sat = [r1cs |-> None, relaxed |-> None]
    /\ pc = "start"
    /\ inst2 = None /\ z2 = None /\ inst3 = None /\ z3 = None /\ challenge = None

IsSatisfiedR1CS ==
    /\ pc = "start"
    /\ sat' = [sat EXCEPT !.r1cs = R1CS_is_satisfied(r1cs, z1)]
    /\ pc' = "checked"
    /\ UNCHANGED <<r1cs, inst1, z1, inst2, z2, inst3, z3, challenge>>
    /\ UNCHANGED <<kzgVars, polyVars>>

Lift ==
    /\ pc = "checked"
    /\ inst1' = R1CSRelaxed_from(r1cs)
    /\ pc' = "lifted"
    /\ UNCHANGED <<r1cs, z1, inst2, z2, inst3, z3, sat, challenge>>
    /\ UNCHANGED <<kzgVars, polyVars>>

IsSatisfiedLifted ==
    /\ pc = "lifted"
    /\ sat' = [sat EXCEPT !.relaxed = R1CSRelaxed_is_satisfied(inst1, z1)]
    /\ pc' = "done"
    /\ UNCHANGED <<r1cs, inst1, z1, inst2, z2, inst3, z3, challenge>>
    /\ UNCHANGED <<kzgVars, polyVars>>

SNext == IsSatisfiedR1CS \/ Lift \/ IsSatisfiedLifted

SpecSat == SInit /\ [][SNext]_vars

(***************************************************************************)
(* Folding sessions: two relaxed instances over the same matrices, each    *)
(* with its vector z, are checked, combined with a challenge r by          *)
(* compute_e, compute_u, from_relaxed_r1cs and compute_z, and the result   *)
(* is checked (test_valid_rlc_of_two_relaxed_r1cs).                        *)
(***************************************************************************)
TestInputs == {3, 5}

Scalars == {u % P : u \in 0 .. MaxU}

Deltas == {d % P : d \in 0 .. MaxDelta}

(* the error term with which (u, E) is satisfied by z *)
ErrorTerm(m, z, u) ==
    VecSub(VecMul(dot_vector(m.a, z), dot_vector(m.b, z)),
           scalar_mul(dot_vector(m.c, z), u)).val

FInit ==
    /\ NoPoly
    /\ NoKzg
    /\ r1cs \in R1CSFamily
    /\ \E x1 \in F, x2 \in TestInputs, u1 \in Scalars, u2 \in Scalars,
          i \in 1 .. num_cols(get_test_r1cs.a), d \in Deltas :
          LET w1 == get_test_satisfying_witness(x1)
              w2 == get_test_satisfying_witness(x2)
          IN /\ inst1 = from_relaxed_r1cs(r1cs.a, r1cs.b, r1cs.c, u1, ErrorTerm(r1cs, w1, u1))
             /\ z1 = Perturb(w1, i, d)
             /\ inst2 = from_relaxed_r1cs(r1cs.a, r1cs.b, r1cs.c, u2, ErrorTerm(r1cs, w2, u2))
             /\ z2 = w2
    /\ inst3 = None /\ z3 = None /\ challenge = None
    /\ sat = [s1 |-> None, s2 |-> None, s3 |-> None]
    /\ pc = "start"

IsSatisfied1 ==
    /\ pc = "start"
    /\ sat' = [sat EXCEPT !.s1 = R1CSRelaxed_is_satisfied(inst1, z1)]
    /\ pc' = "checked1"
    /\ UNCHANGED <<r1cs, inst1, z1, inst2, z2, inst3, z3, challenge>>
    /\ UNCHANGED <<kzgVars, polyVars>>

IsSatisfied2 ==
    /\ pc = "checked1"
    /\ sat' = [sat EXCEPT !.s2 = R1CSRelaxed_is_satisfied(inst2, z2)]
    /\ pc' = "checked2"
    /\ UNCHANGED <<r1cs, inst1, z1, inst2, z2, inst3, z3, challenge>>
    /\ UNCHANGED <<kzgVars, polyVars>>

(* a fold that overwrites the first instance and its vector with the result *)
FoldInPlace ==
    /\ pc = "checked2"
    /\ \E ch \in F :
          LET e_3 == compute_e(inst1, inst2, ch, z1, z2)
              u_3 == compute_u(inst1, inst2, ch)
              folded == from_relaxed_r1cs(r1cs.a, r1cs.b, r1cs.c, u_3, e_3.val)
          IN /\ challenge' = ch
             /\ inst3' = IF IsOk(e_3) THEN Ok(folded) ELSE Panic
             /\ z3' = IF IsOk(e_3) THEN compute_z(inst1, ch, z1, z2) ELSE Panic
             /\ inst1' = IF IsOk(e_3) THEN folded ELSE inst1
             /\ z1' = IF IsOk(e_3) /\ IsOk(z3') THEN z3'.val ELSE z1
    /\ pc' = "folded"
    /\ UNCHANGED <<r1cs, inst2, z2, sat>>
    /\ UNCHANGED <<kzgVars, polyVars>>

Fold ==
    /\ pc = "checked2"
    /\ \E ch \in F :
          LET e_3 == compute_e(inst1, inst2, ch, z1, z2)
              u_3 == compute_u(inst1, inst2, ch)
          IN /\ challenge' = ch
             /\ inst3' = IF IsOk(e_3)
                         THEN Ok(from_relaxed_r1cs(r1cs.a, r1cs.b, r1cs.c, u_3, e_3.val))
                         ELSE Panic
             /\ z3' = IF IsOk(e_3) THEN compute_z(inst1, ch, z1, z2) ELSE Panic
    /\ pc' = "folded"
    /\ UNCHANGED <<r1cs, inst1, z1, inst2, z2, sat>>
    /\ UNCHANGED <<kzgVars, polyVars>>

IsSatisfied3 ==
    /\ pc = "folded"
    /\ sat' = [sat EXCEPT !.s3 = IF BothOk(inst3, z3)
                                 THEN R1CSRelaxed_is_satisfied(inst3.val, z3.val)
                                 ELSE Panic]
    /\ pc' = "checked3"
    /\ UNCHANGED <<r1cs, inst1, z1, inst2, z2, inst3, z3, challenge>>
    /\ UNCHANGED <<kzgVars, polyVars>>

FNext == IsSatisfied1 \/ IsSatisfied2 \/ Fold \/ IsSatisfied3

SpecFold == FInit /\ [][FNext]_vars

(* the relation of a relaxed R1CS, row by row *)
RowHolds(inst, z, i) ==
    FMul(RowDot(inst.a[i], z, Len(z)), RowDot(inst.b[i], z, Len(z)))
        = FAdd(FMul(inst.u, RowDot(inst.c[i], z, Len(z))), inst.e[i])

RowsHold(inst, z) == \A i \in 1 .. num_rows(inst.a) : RowHolds(inst, z, i)

NonZero(v) == \E i \in 1 .. Len(v) : v[i] # 0

(* C2: when both folded instances are satisfied by their vectors, the      *)
(* instance (compute_u, compute_e) is satisfied by compute_z, for every    *)
(* challenge r.                                                            *)
C2_FoldedIsSatisfied ==
    (pc = "checked3" /\ sat.s1 = Ok(TRUE) /\ sat.s2 = Ok(TRUE)) => sat.s3 = Ok(TRUE)

C2_Witness ==
    /\ pc = "checked3" /\ sat.s1 = Ok(TRUE) /\ sat.s2 = Ok(TRUE) /\ sat.s3 = Ok(TRUE)
    /\ challenge \notin {0, 1}
    /\ inst1.u \notin {0, 1} /\ inst2.u \notin {0, 1}
    /\ NonZero(inst1.e) /\ NonZero(inst2.e)
    /\ z1 # z2

(* C9: is_satisfied of a relaxed R1CS returns true exactly when, in every  *)
(* row i, (A z)_i * (B z)_i = u * (C z)_i + E_i.                           *)
C9_RelaxedSatisfiedIffRowsHold ==
    /\ (pc \in {"checked1", "checked2", "folded", "checked3"})
          => sat.s1 = Ok(RowsHold(inst1, z1))
    /\ (pc \in {"checked2", "folded", "checked3"})
          => sat.s2 = Ok(RowsHold(inst2, z2))
    /\ (pc = "checked3" /\ BothOk(inst3, z3))
          => sat.s3 = Ok(RowsHold(inst3.val, z3.val))

C9_Witness ==
    /\ pc = "checked3" /\ BothOk(inst3, z3)
    /\ sat.s1 = Ok(FALSE) /\ sat.s2 = Ok(TRUE)
    /\ NonZero(inst2.e) /\ inst2.u \notin {0, 1}
    /\ NonZero(inst3.val.e) /\ sat.s3 = Ok(FALSE)

(* C8: lifting an R1CS gives u = 1, the zero error vector of length        *)
(* n_constraints, the same matrices and size fields, and a relaxed         *)
(* instance that z satisfies exactly when z satisfies the R1CS.            *)
C8_LiftPreservesSatisfaction ==
    /\ (pc \in {"lifted", "done"}) =>
          /\ inst1.u = 1
          /\ inst1.e = new_zero_vector(r1cs.n_constraints)
          /\ inst1.a = r1cs.a /\ inst1.b = r1cs.b /\ inst1.c = r1cs.c
          /\ inst1.n_constraints = r1cs.n_constraints
          /\ inst1.n_witness = r1cs.n_witness
          /\ inst1.n_instance = r1cs.n_instance
    /\ (pc = "done") => (sat.relaxed = Ok(TRUE) <=> sat.r1cs = Ok(TRUE))

C8_Witness ==
    /\ pc = "done" /\ sat.relaxed = Ok(TRUE) /\ sat.r1cs = Ok(TRUE)
    /\ r1cs.n_constraints # r1cs.n_witness

OneEntryOff(z, w) ==
    /\ Len(z) = Len(w)
    /\ Cardinality({i \in 1 .. Len(w) : z[i] # w[i]}) = 1

(* C10: the test R1CS accepts the witness of input 3, and rejects it once  *)
(* any single entry has a nonzero d added.                                 *)
C10_TestWitnessAcceptedPerturbedRejected ==
    (r1cs = TestR1CS /\ pc # "start") =>
        /\ (z1 = get_test_satisfying_witness(3)) => sat.r1cs = Ok(TRUE)
        /\ OneEntryOff(z1, get_test_satisfying_witness(3)) => sat.r1cs = Ok(FALSE)

C10_Witness ==
    /\ r1cs = TestR1CS /\ pc # "start"
    /\ OneEntryOff(z1, get_test_satisfying_witness(3))
    /\ z1[3] # get_test_satisfying_witness(3)[3]
    /\ sat.r1cs = Ok(FALSE)

(***************************************************************************)
(* The folding formulas: C15, C16                                          *)
(***************************************************************************)
Folded == pc \in {"folded", "checked3"}

Dot(m, v, i) == RowDot(m[i], v, Len(v))

CrossTerm(i1, i2, w1, w2) ==
    [i \in 1 .. i1.n_constraints |->
        FSub(FSub(FAdd(FMul(Dot(i1.a, w1, i), Dot(i1.b, w2, i)),
                       FMul(Dot(i1.a, w2, i), Dot(i1.b, w1, i))),
                  FMul(i1.u, Dot(i1.c, w2, i))),
             FMul(i2.u, Dot(i1.c, w1, i)))]

(* C15: compute_t returns the vector of length n_constraints with entries   *)
(* (A z1)_i (B z2)_i + (A z2)_i (B z1)_i - u1 (C z2)_i - u2 (C z1)_i.       *)
C15_CrossTermFormula ==
    Folded => compute_t(inst1, inst2, z1, z2) = Ok(CrossTerm(inst1, inst2, z1, z2))

C15_Witness ==
    /\ Folded /\ inst1.u # inst2.u /\ z1 # z2
    /\ NonZero(compute_t(inst1, inst2, z1, z2).val)
    /\ \E i \in 1 .. inst1.n_constraints :
          Dot(inst1.c, z1, i) # Dot(inst1.c, z2, i)

(* C16: compute_e returns E1 + r T + r^2 E2 entry by entry, with T the      *)
(* cross term of the instances and vectors of this call; compute_u returns  *)
(* u1 + r u2 and compute_z returns z1 + r z2.                               *)
C16_FoldFormulas ==
    Folded =>
        /\ BothOk(inst3, z3)
        /\ inst3.val.e =
              [i \in 1 .. inst1.n_constraints |->
                  FAdd(FAdd(inst1.e[i],
                            FMul(challenge, CrossTerm(inst1, inst2, z1, z2)[i])),
                       FMul(FMul(challenge, challenge), inst2.e[i]))]
        /\ inst3.val.u = FAdd(inst1.u, FMul(challenge, inst2.u))
        /\ z3.val = [i \in 1 .. Len(z1) |-> FAdd(z1[i], FMul(challenge, z2[i]))]

C16_Witness ==
    /\ Folded /\ BothOk(inst3, z3)
    /\ challenge \notin {0, 1}
    /\ NonZero(inst1.e) /\ NonZero(inst2.e) /\ inst2.u # 0
    /\ NonZero(CrossTerm(inst1, inst2, z1, z2))
    /\ z3.val # z1 /\ z3.val # z2

(***************************************************************************)
(* Folding sessions on instances and vectors whose dimensions may differ:  *)
(* the second instance may have a row or a column fewer than the first,    *)
(* each error term and each vector may be one entry short.                 *)
(***************************************************************************)
DropRow(m) == Prefix(m, Len(m) - 1)
DropCol(m) == [i \in 1 .. Len(m) |-> Prefix(m[i], Len(m[i]) - 1)]

Reshaped(m, shape) ==
    IF shape = "rows" THEN [a |-> DropRow(m.a), b |-> DropRow(m.b), c |-> DropRow(m.c)]
    ELSE IF shape = "cols" THEN [a |-> DropCol(m.a), b |-> DropCol(m.b), c |-> DropCol(m.c)]
    ELSE [a |-> m.a, b |-> m.b, c |-> m.c]

ShortBy(v, k) == Prefix(v, Len(v) - k)

DInit ==
    /\ NoPoly
    /\ NoKzg
    /\ r1cs \in {m \in R1CSFamily : m.n_constraints >= 2}
    /\ \E shape \in {"same", "rows", "cols"}, u1 \in Scalars, u2 \in Scalars,
          ke1 \in {0, 1}, ke2 \in {0, 1}, kz1 \in {0, 1}, kz2 \in {0, 1} :
          LET m2 == Reshaped(r1cs, shape)
              w1 == get_test_satisfying_witness(3)
              w2 == get_test_satisfying_witness(5)
          IN /\ inst1 = from_relaxed_r1cs(r1cs.a, r1cs.b, r1cs.c, u1,
                            ShortBy(ErrorTerm(r1cs, w1, u1), ke1))
             /\ z1 = ShortBy(w1, kz1)
             /\ inst2 = from_relaxed_r1cs(m2.a, m2.b, m2.c, u2,
                            ShortBy(ErrorTerm(m2, Prefix(w2, num_cols(m2.a)), u2), ke2))
             /\ z2 = ShortBy(w2, kz2)
    /\ inst3 = None /\ z3 = None /\ challenge = None
    /\ sat = [s1 |-> None, s2 |-> None, s3 |-> None]
    /\ pc = "checked2"

DNext == Fold \/ IsSatisfied3

SpecShape == DInit /\ [][DNext]_vars

Dims(inst) ==
    <<num_rows(inst.a), num_cols(inst.a), num_rows(inst.b), num_cols(inst.b),
      num_rows(inst.c), num_cols(inst.c)>>

Mismatched ==
    \/ Dims(inst1) # Dims(inst2)
    \/ Len(z1) # num_cols(inst1.a) \/ Len(z2) # num_cols(inst1.a)
    \/ Len(inst1.e) # inst1.n_constraints \/ Len(inst2.e) # inst2.n_constraints

(* C19: when the two instances differ in a matrix dimension, or z1 or z2    *)
(* has not the matrices' column count, or E1 or E2 has not length           *)
(* n_constraints, the folding computation aborts and produces neither a     *)
(* folded instance nor a folded vector.                                     *)
C19_MismatchAborts ==
    (Folded /\ Mismatched) => (inst3 = Panic /\ z3 = Panic)

(***************************************************************************)
(* Frame, shape and residual of a fold: C22, C23, C30                      *)
(***************************************************************************)
(* C22: the fold (compute_e, compute_u, compute_z with their compute_t)     *)
(* leaves instance1, instance2, z1 and z2 as they were; the folded instance *)
(* and vector are new values.                                               *)
C22_FoldLeavesInputsUnchanged ==
    [][(pc = "checked2" /\ pc' = "folded") =>
          /\ inst1' = inst1 /\ inst2' = inst2 /\ z1' = z1 /\ z2' = z2
          /\ r1cs' = r1cs
          /\ inst3' # None /\ z3' # None]_vars

C22_Witness ==
    /\ Folded /\ BothOk(inst3, z3)
    /\ inst3.val # inst1 /\ inst3.val # inst2
    /\ z3.val # z1 /\ z3.val # z2

ShapeOk(x) ==
    /\ num_rows(x.a) = x.n_constraints
    /\ num_rows(x.b) = x.n_constraints
    /\ num_rows(x.c) = x.n_constraints
    /\ num_cols(x.a) = 1 + x.n_instance + x.n_witness
    /\ num_cols(x.b) = num_cols(x.a)
    /\ num_cols(x.c) = num_cols(x.a)

(* C23: every R1CS and relaxed R1CS built by the constructors has A, B, C   *)
(* with n_constraints rows and 1 + n_instance + n_witness columns.          *)
C23_ShapeInvariant ==
    /\ ShapeOk(r1cs)
    /\ ShapeOk(inst1)
    /\ ShapeOk(inst2)
    /\ IsOk(inst3) => ShapeOk(inst3.val)

Residual(inst, z) ==
    [i \in 1 .. num_rows(inst.a) |->
        FSub(FSub(FMul(Dot(inst.a, z, i), Dot(inst.b, z, i)),
                  FMul(inst.u, Dot(inst.c, z, i))),
             inst.e[i])]

(* C30: the residual of the folded instance at the folded vector is         *)
(* res1 + r^2 res2; so when z1 does not satisfy instance1 and z2 satisfies  *)
(* instance2, the folded vector does not satisfy the folded instance.       *)
C30_FoldPreservesUnsatisfiability ==
    /\ (Folded /\ BothOk(inst3, z3)) =>
          Residual(inst3.val, z3.val) =
              [i \in 1 .. num_rows(inst1.a) |->
                  FAdd(Residual(inst1, z1)[i],
                       FMul(FMul(challenge, challenge), Residual(inst2, z2)[i]))]
    /\ (pc = "checked3" /\ sat.s1 = Ok(FALSE) /\ sat.s2 = Ok(TRUE)) => sat.s3 = Ok(FALSE)

C30_Witness ==
    /\ pc = "checked3" /\ sat.s1 = Ok(FALSE) /\ sat.s2 = Ok(TRUE) /\ sat.s3 = Ok(FALSE)
    /\ challenge \notin {0, 1} /\ NonZero(inst1.e) /\ inst1.u # 1

(***************************************************************************)
(* Accumulation: an accumulator starts as the lift of the R1CS with a      *)
(* vector that satisfies it; each step lifts the R1CS again with another   *)
(* satisfying vector, folds it into the accumulator under a challenge and  *)
(* the accumulator is then checked.                                        *)
(***************************************************************************)
AInit ==
    /\ NoPoly
    /\ NoKzg
    /\ r1cs \in R1CSFamily
    /\ inst1 = R1CSRelaxed_from(r1cs)
    /\ \E x \in F : z1 = get_test_satisfying_witness(x)
    /\ inst2 = None /\ z2 = None /\ inst3 = None /\ z3 = None /\ challenge = None
    /\ sat = [folds |-> 0, s |-> None]
    /\ pc = "fold"

Accumulate ==
    /\ pc = "fold"
    /\ sat.folds < MaxFolds
    /\ \E ch \in F, x \in TestInputs :
          LET other == R1CSRelaxed_from(r1cs)
              w == get_test_satisfying_witness(x)
              e_3 == compute_e(inst1, other, ch, z1, w)
              u_3 == compute_u(inst1, other, ch)
              z_3 == compute_z(inst1, ch, z1, w)
          IN /\ BothOk(e_3, z_3)
             /\ inst2' = other
             /\ z2' = w
             /\ challenge' = ch
             /\ inst1' = from_relaxed_r1cs(r1cs.a, r1cs.b, r1cs.c, u_3, e_3.val)
             /\ z1' = z_3.val
    /\ sat' = [folds |-> sat.folds + 1, s |-> None]
    /\ pc' = "check"
    /\ UNCHANGED <<r1cs, inst3, z3>>
    /\ UNCHANGED <<kzgVars, polyVars>>

CheckAccumulator ==
    /\ pc = "check"
    /\ sat' = [sat EXCEPT !.s = R1CSRelaxed_is_satisfied(inst1, z1)]
    /\ pc' = "fold"
    /\ UNCHANGED <<r1cs, inst1, z1, inst2, z2, inst3, z3, challenge>>
    /\ UNCHANGED <<kzgVars, polyVars>>

ANext == Accumulate \/ CheckAccumulator

SpecAcc == AInit /\ [][ANext]_vars

(* C24: after every finite sequence of fold steps that start from lifted,   *)
(* satisfied instances of one R1CS, the accumulator is satisfied by its     *)
(* accumulated vector.                                                      *)
C24_AccumulatorSatisfied ==
    /\ RowsHold(inst1, z1)
    /\ sat.s # None => sat.s = Ok(TRUE)

C24_Witness ==
    /\ sat.folds = MaxFolds /\ sat.s = Ok(TRUE)
    /\ NonZero(inst1.e) /\ inst1.u \notin {0, 1} /\ challenge \notin {0, 1}

(***************************************************************************)
(* Multilinear extensions (src/src/ip/sumcheck/mod.rs).  A point of the    *)
(* hypercube is the sequence of its coordinates, lowest bit first.         *)
(***************************************************************************)
get_hypercube_points(v) ==
    [i \in 1 .. 2 ^ v |-> [j \in 1 .. v |-> ((i - 1) \div 2 ^ (j - 1)) % 2]]

RECURSIVE ChiProd(_, _, _)
ChiProd(w, x, n) ==
    IF n = 0 THEN 1
    ELSE FMul(ChiProd(w, x, n - 1),
              FAdd(FMul(x[n], w[n]), FMul(FSub(1, x[n]), FSub(1, w[n]))))

compute_chi_w(w, x) == ChiProd(w, x, MinOf(Len(w), Len(x)))

RECURSIVE NaiveSum(_, _, _, _)
NaiveSum(poly_evals, h, x, n) ==
    IF n = 0 THEN 0
    ELSE FAdd(NaiveSum(poly_evals, h, x, n - 1), FMul(poly_evals[n], compute_chi_w(h[n], x)))

(* a naive evaluation that adds chi_w without the coefficient *)
naive_mle_evaluation_unweighted(poly_evals, h, x) ==
    LET RECURSIVE Sum(_)
        Sum(n) == IF n = 0 THEN 0 ELSE FAdd(Sum(n - 1), compute_chi_w(h[n], x))
    IN Sum(MinOf(Len(h), Len(poly_evals)))

naive_mle_evaluation(poly_evals, h, x) ==
    NaiveSum(poly_evals, h, x, MinOf(Len(h), Len(poly_evals)))

RECURSIVE BitSum(_, _)
BitSum(binary_vec, n) ==
    IF n = 0 THEN 0
    ELSE BitSum(binary_vec, n - 1) + (IF binary_vec[n] = 1 THEN 2 ^ (n - 1) ELSE 0)

(* binary_vec_to_usize that reads the highest bit first *)
binary_vec_to_usize_big_endian(binary_vec) ==
    LET RECURSIVE Sum(_)
        Sum(n) == IF n = 0 THEN 0
                  ELSE Sum(n - 1) + (IF binary_vec[n] = 1
                                     THEN 2 ^ (Len(binary_vec) - n) ELSE 0)
    IN Sum(Len(binary_vec))

binary_vec_to_usize(binary_vec) == BitSum(binary_vec, Len(binary_vec))

(* one call of build_memoized_chi_table up to its test of the stage: the    *)
(* table of this stage, or a panic on an index out of bounds                *)
ChiStageTable(stage, prev_table, h, r) ==
    IF \E i \in 1 .. Len(h) :
          \/ binary_vec_to_usize(h[i]) >= Len(prev_table)
          \/ stage >= Len(h[i])
          \/ stage >= Len(r)
    THEN Panic
    ELSE Ok([i \in 1 .. Len(h) |->
                FMul(prev_table[binary_vec_to_usize(h[i]) + 1],
                     FAdd(FMul(h[i][stage + 1], r[stage + 1]),
                          FMul(FSub(1, h[i][stage + 1]), FSub(1, r[stage + 1]))))])

RECURSIVE build_memoized_chi_table(_, _, _, _)
build_memoized_chi_table(stage, prev_table, h, r) ==
    LET table == ChiStageTable(stage, prev_table, h, r)
    IN IF ~IsOk(table) THEN Panic
       ELSE IF stage = Len(r) - 1 THEN table
       ELSE build_memoized_chi_table(stage + 1, table.val, h, r)

RECURSIVE MemoSum(_, _, _)
MemoSum(poly_evals, memoized_chi_table, n) ==
    IF n = 0 THEN 0
    ELSE FAdd(MemoSum(poly_evals, memoized_chi_table, n - 1),
              FMul(poly_evals[n], memoized_chi_table[n]))

memoized_mle_evaluation(poly_evals, memoized_chi_table) ==
    MemoSum(poly_evals, memoized_chi_table, MinOf(Len(poly_evals), Len(memoized_chi_table)))

(* the evaluation vectors over the hypercube h *)
EvaluationVectors(h) == [1 .. Len(h) -> Coeffs]

(***************************************************************************)
(* An evaluation session (test_naive_mle, test_build_memoized_chi_table,   *)
(* test_memoized_mle_evaluation): the hypercube, the evaluations and the   *)
(* point are built, the table is built stage by stage, and the two         *)
(* evaluations are computed.                                               *)
(***************************************************************************)
MInit ==
    /\ NoKzg /\ NoFold /\ qap = None
    /\ \E v \in 1 .. MaxVars :
          \E x \in [1 .. v -> F], evaluations \in EvaluationVectors(get_hypercube_points(v)) :
             LET h == get_hypercube_points(v)
             IN mle = [v |-> v, h |-> h, x |-> x,
                       poly_evals |-> evaluations,
                       stage |-> 0, stages |-> 0,
                       table |-> Ok([i \in 1 .. Len(h) |-> 1]),
                       done |-> FALSE, naive |-> None, memoized |-> None]

(* one activation of build_memoized_chi_table *)
BuildStage ==
    /\ ~mle.done
    /\ IsOk(mle.table)
    /\ LET table == ChiStageTable(mle.stage, mle.table.val, mle.h, mle.x)
       IN mle' = [mle EXCEPT !.table = table,
                             !.stages = @ + 1,
                             !.done = ~IsOk(table) \/ mle.stage = Len(mle.x) - 1,
                             !.stage = IF IsOk(table) /\ mle.stage # Len(mle.x) - 1
                                       THEN @ + 1 ELSE @]
    /\ UNCHANGED <<kzgVars, foldVars, qap>>

NaiveMle ==
    /\ mle.naive = None
    /\ mle' = [mle EXCEPT !.naive = Ok(naive_mle_evaluation(mle.poly_evals, mle.h, mle.x))]
    /\ UNCHANGED <<kzgVars, foldVars, qap>>

MemoizedMle ==
    /\ mle.done /\ IsOk(mle.table)
    /\ mle.memoized = None
    /\ mle' = [mle EXCEPT !.memoized =
                  Ok(memoized_mle_evaluation(mle.poly_evals, mle.table.val))]
    /\ UNCHANGED <<kzgVars, foldVars, qap>>

MNextMle == BuildStage \/ NaiveMle \/ MemoizedMle

SpecMle == MInit /\ [][MNextMle]_vars

(* C28: for v >= 1, the table built from the all-ones table ends after v    *)
(* stages, has length 2^v, and its i-th entry is compute_chi_w(h[i], r),    *)
(* the product over k of h[i][k] r[k] + (1 - h[i][k])(1 - r[k]).            *)
C28_ChiTable ==
    /\ mle.stages <= mle.v
    /\ mle.done =>
          /\ mle.stages = mle.v
          /\ IsOk(mle.table)
          /\ Len(mle.table.val) = 2 ^ mle.v
          /\ \A i \in 1 .. 2 ^ mle.v :
                /\ mle.table.val[i] = compute_chi_w(mle.h[i], mle.x)
                /\ mle.table.val[i] = ChiProd(mle.h[i], mle.x, mle.v)
          /\ mle.table = build_memoized_chi_table(0, [i \in 1 .. 2 ^ mle.v |-> 1], mle.h, mle.x)

C28_Witness ==
    /\ mle.done /\ mle.v = MaxVars /\ IsOk(mle.table)
    /\ \A k \in 1 .. mle.v : mle.x[k] \notin {0, 1}
    /\ \A i, j \in 1 .. 2 ^ mle.v : i # j => mle.table.val[i] # mle.table.val[j]

(* C29: the naive and the memoized evaluation agree, and at the hypercube   *)
(* point h[k] both return poly_evals[k].                                    *)
C29_MleEvaluationsAgree ==
    /\ (mle.naive # None /\ mle.memoized # None) => mle.naive = mle.memoized
    /\ \A k \in 1 .. 2 ^ mle.v :
          (mle.x = mle.h[k]) =>
              /\ mle.naive # None => mle.naive = Ok(mle.poly_evals[k])
              /\ mle.memoized # None => mle.memoized = Ok(mle.poly_evals[k])

C29_Witness ==
    /\ mle.naive # None /\ mle.memoized # None /\ mle.naive = mle.memoized
    /\ mle.v = MaxVars /\ mle.naive.val # 0
    /\ \A k \in 1 .. mle.v : mle.x[k] \notin {0, 1}
    /\ \E i, j \in 1 .. 2 ^ mle.v : mle.poly_evals[i] # mle.poly_evals[j]

(***************************************************************************)
(* Quadratic arithmetic programs (src/src/circuits/qap.rs).  A domain is   *)
(* the subgroup of F generated by an element of order size, where size is  *)
(* the least power of two that holds the requested number of points; the   *)
(* field has such a subgroup only for the sizes that divide P - 1.         *)
(***************************************************************************)
RECURSIVE next_power_of_two(_, _)
next_power_of_two(k, size) == IF size >= k THEN size ELSE next_power_of_two(k, 2 * size)

HasOrder(w, size) == FPow(w, size) = 1 /\ \A k \in 1 .. size - 1 : FPow(w, k) # 1

GeneralEvaluationDomain_new(k) ==
    LET size == next_power_of_two(k, 1)
    IN IF \E w \in F : HasOrder(w, size)
       THEN Ok([size |-> size, omega |-> CHOOSE w \in F : HasOrder(w, size)])
       ELSE None

elements(domain) == [j \in 1 .. domain.size |-> FPow(domain.omega, j - 1)]

get_omega_domain(n) ==
    LET omegas == GeneralEvaluationDomain_new(n)
    IN IF IsOk(omegas) THEN Ok([domain |-> omegas.val, omegas |-> elements(omegas.val)])
       ELSE Panic

RECURSIVE IfftSum(_, _, _, _)
IfftSum(evals, domain, k, j) ==
    IF j = 0 THEN 0
    ELSE FAdd(IfftSum(evals, domain, k, j - 1),
              FMul(IF j <= Len(evals) THEN evals[j] ELSE 0,
                   FPow(FInv(domain.omega), ((j - 1) * k) % domain.size)))

(* an inverse transform that leaves out the division by the domain size *)
ifft_without_scaling(evals, domain) ==
    [k \in 1 .. domain.size |-> IfftSum(evals, domain, k - 1, domain.size)]

ifft(evals, domain) ==
    [k \in 1 .. domain.size |->
        FMul(FInv(domain.size % P), IfftSum(evals, domain, k - 1, domain.size))]

interpolate(evals, domain) == from_coefficients_vec(ifft(evals, domain))

compute_lagrange_interpolation_on_roots_of_unity(evals) ==
    LET omegas == GeneralEvaluationDomain_new(Len(evals))
    IN IF IsOk(omegas) THEN Ok(interpolate(evals, omegas.val)) ELSE Panic

compute_lagrange_polynomial_from_matrix(mat) ==
    LET poly(i) == compute_lagrange_interpolation_on_roots_of_unity(
                       [j \in 1 .. num_rows(mat) |-> mat[j][i]])
    IN IF \E i \in 1 .. num_cols(mat) : ~IsOk(poly(i)) THEN Panic
       ELSE Ok([i \in 1 .. num_cols(mat) |-> poly(i).val])

(* sum over i of polys[i] * witness[i], accumulated from the zero polynomial *)
RECURSIVE CombinePolys(_, _, _)
CombinePolys(polys, witness, n) ==
    IF n = 0 THEN <<>>
    ELSE PolyAdd(CombinePolys(polys, witness, n - 1), PolyScale(polys[n], witness[n]))

RECURSIVE FoldCoeff(_, _, _)
FoldCoeff(p, i, size) == IF i > Len(p) THEN 0 ELSE FAdd(p[i], FoldCoeff(p, i + size, size))

(* the remainder of p on division by X^size - 1 *)
divide_by_vanishing_poly_remainder(p, domain) ==
    from_coefficients_vec([i \in 1 .. domain.size |-> FoldCoeff(p, i, domain.size)])

(***************************************************************************)
(* test_qap_is_satisfied on an R1CS made of rows of the test system and a  *)
(* vector that is a test witness or differs from one at one entry.         *)
(***************************************************************************)
RowChoices == UNION {[1 .. n -> 1 .. num_rows(get_test_r1cs.a)] : n \in 1 .. MaxRows}

QInit ==
    /\ NoKzg /\ NoFold /\ mle = None
    /\ \E rows \in RowChoices, witness \in SatInputs :
          qap = [a |-> [j \in DOMAIN rows |-> get_test_r1cs.a[rows[j]]],
                 b |-> [j \in DOMAIN rows |-> get_test_r1cs.b[rows[j]]],
                 c |-> [j \in DOMAIN rows |-> get_test_r1cs.c[rows[j]]],
                 witness |-> witness,
                 a_polys |-> None, b_polys |-> None, c_polys |-> None,
                 domain |-> None, final_poly |-> None, remainder |-> None]

Interpolate ==
    /\ qap.a_polys = None
    /\ qap' = [qap EXCEPT !.a_polys = compute_lagrange_polynomial_from_matrix(qap.a),
                          !.b_polys = compute_lagrange_polynomial_from_matrix(qap.b),
                          !.c_polys = compute_lagrange_polynomial_from_matrix(qap.c)]
    /\ UNCHANGED <<kzgVars, foldVars, mle>>

GetDomain ==
    /\ IsOk(qap.a_polys)
    /\ qap.domain = None
    /\ qap' = [qap EXCEPT !.domain = get_omega_domain(Len(qap.a_polys.val[1]))]
    /\ UNCHANGED <<kzgVars, foldVars, mle>>

FinalPoly ==
    /\ IsOk(qap.a_polys) /\ IsOk(qap.b_polys) /\ IsOk(qap.c_polys)
    /\ IsOk(qap.domain)
    /\ qap.final_poly = None
    /\ LET n == Len(qap.a_polys.val)
           a_final_poly == CombinePolys(qap.a_polys.val, qap.witness, n)
           b_final_poly == CombinePolys(qap.b_polys.val, qap.witness, n)
           c_final_poly == CombinePolys(qap.c_polys.val, qap.witness, n)
       IN qap' = [qap EXCEPT !.final_poly =
                     IF Len(qap.witness) < n THEN Panic
                     ELSE Ok(PolySub(PolyMul(a_final_poly, b_final_poly), c_final_poly))]
    /\ UNCHANGED <<kzgVars, foldVars, mle>>

Divide ==
    /\ IsOk(qap.final_poly)
    /\ qap.remainder = None
    /\ qap' = [qap EXCEPT !.remainder =
                  Ok(divide_by_vanishing_poly_remainder(qap.final_poly.val,
                                                        qap.domain.val.domain))]
    /\ UNCHANGED <<kzgVars, foldVars, mle>>

QNext == Interpolate \/ GetDomain \/ FinalPoly \/ Divide

SpecQap == QInit /\ [][QNext]_vars

OnDomain == IsOk(qap.domain) /\ qap.domain.val.domain.size = num_rows(qap.a)

InterpolatesMatrix(polys, mat, omegas) ==
    \A j \in 1 .. num_rows(mat), i \in 1 .. num_cols(mat) :
        evaluate(polys[i], omegas[j]) = mat[j][i]

R1CSRowsHold ==
    \A j \in 1 .. num_rows(qap.a) :
        FMul(Dot(qap.a, qap.witness, j), Dot(qap.b, qap.witness, j))
            = Dot(qap.c, qap.witness, j)

(* C27: when the row count is the size of the roots-of-unity domain, the    *)
(* i-th column polynomial takes the value M[j][i] at omega^j for every row  *)
(* j and column i of A, B and C, and (sum s_i a_i)(sum s_i b_i) -           *)
(* sum s_i c_i leaves a zero remainder on division by the vanishing         *)
(* polynomial exactly when (A s) o (B s) = C s.                             *)
C27_QapEquivalence ==
    OnDomain =>
        /\ IsOk(qap.a_polys) /\ IsOk(qap.b_polys) /\ IsOk(qap.c_polys)
        /\ InterpolatesMatrix(qap.a_polys.val, qap.a, qap.domain.val.omegas)
        /\ InterpolatesMatrix(qap.b_polys.val, qap.b, qap.domain.val.omegas)
        /\ InterpolatesMatrix(qap.c_polys.val, qap.c, qap.domain.val.omegas)
        /\ qap.remainder # None => (qap.remainder = Ok(<<>>) <=> R1CSRowsHold)

C27_Witness ==
    /\ OnDomain /\ num_rows(qap.a) = MaxRows
    /\ qap.remainder = Ok(<<>>)
    /\ Len(qap.final_poly.val) > MaxRows
    /\ \E i \in 1 .. num_cols(qap.a) : qap.witness[i] \notin {0, 1}
====
